---- MODULE Spec2Model ----
(***************************************************************************)
(* A model of retch: the one-shot HTTPS client of src/src/oneshot_tls.rs   *)
(* (oneshot and its TlsClient) and of src/src/lib.rs (get, single).        *)
(*                                                                         *)
(* The client is one sequential thread; `pc` is its position in the code.  *)
(* The TLS session (rustls), the socket and the poller (mio) are modelled  *)
(* by what the calls the code makes on them do.  The server and the        *)
(* network are the environment: the server answers the client's flights,   *)
(* sends its plaintext in records, then closes by close_notify or by FIN;  *)
(* the network delivers ciphertext to the client's socket unit by unit, so *)
(* that a record can be split across readable events at any point.         *)
(***************************************************************************)
EXTENDS Integers, Sequences, FiniteSets, TLC

\* ------------------------------------------------------------------ bounds
MaxPlain == 2   \* longest server plaintext
MaxReq == 2     \* longest request given to oneshot
MaxRec == 2     \* most plaintext bytes the server puts in one TLS record

Bytes == {0, 1}

VARIABLES
    \* inputs of the call
    entry,                \* "get" | "single" | "oneshot"
    url,                  \* [host, port, scheme, path, query]: what the Url exposes
    host_kind,            \* "name" | "ip" | "other": only "name" is a legal SNI value
    send,                 \* the request bytes
    httpreq,              \* the request line single has formatted
    \* the client thread
    pc, result, err,
    \* TlsClient.tls_session
    hs, sendable_plaintext, sendable_tls, deframer, received_plaintext, peer_eof,
    \* TlsClient.socket
    sock_in, sock_fin, sock_out,
    \* the mio registration and the event being handled
    interest, armed, ev,
    \* the spool (oneshot) or stdout (single)
    out,
    \* the server and the network
    plain, close_mode, srv_stage, srv_out, srv_pos,
    faults,               \* the environment may fail and report spurious readiness
    \* what has happened so far
    dns_queried, sock_opened, fault,
    eos,                  \* the end-of-stream signal the client has met, if any
    tls_error,            \* record processing has failed
    \* the run and the spool the previous run returned
    run, prev_out, prev_eos

inputs == <<entry, url, host_kind, send>>
thread == <<pc, result, err>>
session == <<hs, sendable_plaintext, sendable_tls, deframer, received_plaintext, peer_eof>>
socket == <<sock_in, sock_fin, sock_out>>
registration == <<interest, armed, ev>>
server == <<srv_stage, srv_out, srv_pos>>
environment == <<plain, close_mode, faults>>
history == <<dns_queried, sock_opened, fault, eos, tls_error>>
runs == <<run, prev_out, prev_eos>>

vars == <<inputs, thread, session, socket, registration, out, server,
          environment, history, runs, httpreq>>

\* ------------------------------------------------------------ small helpers
Min(a, b) == IF a < b THEN a ELSE b

RECURSIVE SeqsUpTo(_, _)
SeqsUpTo(S, n) ==
    IF n = 0 THEN {<<>>}
    ELSE LET shorter == SeqsUpTo(S, n - 1)
         IN  shorter \cup {Append(s, x) : s \in {t \in shorter : Len(t) = n - 1}, x \in S}

IsPrefix(s, t) == Len(s) <= Len(t) /\ SubSeq(t, 1, Len(s)) = s

\* A TLS record on the wire is two ciphertext units: it can be processed only
\* once both have been read.
Record(t, d, good) == [t |-> t, d |-> d, ok |-> good]
Units(rec) == <<[rec |-> rec, part |-> 1], [rec |-> rec, part |-> 2]>>

\* What the client writes: its two handshake flights and the encrypted request.
ClientHello == [t |-> "CH", b |-> 0]
ClientFinished == [t |-> "CF", b |-> 0]
RequestUnits(bytes) == [i \in 1..Len(bytes) |-> [t |-> "REQ", b |-> bytes[i]]]

Has(seq, x) == \E i \in 1..Len(seq) : seq[i] = x

Paths == {"/", "/q"}
Queries == {"none", "x=1&y=2"}
Urls == [host : BOOLEAN, port : BOOLEAN, scheme : BOOLEAN, path : Paths, query : Queries]
Requests == {[i \in 1..n |-> i] : n \in 1..MaxReq}

NoSession ==
    /\ hs = "none"
    /\ sendable_plaintext = <<>>
    /\ sendable_tls = <<>>
    /\ deframer = <<>>
    /\ received_plaintext = <<>>
    /\ peer_eof = FALSE

Fresh ==
    /\ result = "none" /\ err = "none"
    /\ NoSession
    /\ sock_in = <<>> /\ sock_fin = FALSE /\ sock_out = <<>>
    /\ interest = {} /\ armed = FALSE /\ ev = {}
    /\ out = <<>>
    /\ srv_stage = "wait_ch" /\ srv_out = <<>> /\ srv_pos = 0
    /\ dns_queried = FALSE /\ sock_opened = FALSE /\ fault = "none"
    /\ eos = "none" /\ tls_error = FALSE

Init ==
    /\ entry \in {"get", "single", "oneshot"}
    /\ url \in Urls
    /\ entry = "oneshot" =>
          url = [host |-> TRUE, port |-> TRUE, scheme |-> TRUE, path |-> "/", query |-> "none"]
    /\ host_kind \in {"name", "ip", "other"}
    /\ send \in Requests
    /\ entry # "oneshot" => send = <<1>>
    /\ plain \in SeqsUpTo(Bytes, MaxPlain)
    /\ close_mode \in {"notify", "fin"}
    /\ faults = TRUE
    /\ httpreq = <<>>
    /\ pc = CASE entry = "get" -> "get"
              [] entry = "single" -> "host"
              [] OTHER -> "connect"
    /\ run = 1 /\ prev_out = <<>> /\ prev_eos = "none"
    /\ Fresh

\* ------------------------------------------------------- ends of the call
\* Every step of the client thread either goes on to another position or ends
\* the call: with a value (Ok), with an error value (Err, through `?`), or by
\* panicking (unwrap, unimplemented!).  `fault` records what failed.
Continue(next) ==
    /\ pc' = next
    /\ UNCHANGED <<result, err, fault>>

Return(value) ==
    /\ pc' = "done" /\ result' = value
    /\ UNCHANGED <<err, fault>>

Fail(kind, what) ==
    /\ pc' = "done" /\ result' = "err" /\ err' = kind
    /\ fault' = what

Panic(what) ==
    /\ pc' = "done" /\ result' = "panic" /\ fault' = what
    /\ UNCHANGED err

\* ------------------------------------------------ the TLS session (rustls)
\* wants_read: the session wants more ciphertext unless it holds plaintext the
\* caller has not taken yet.  wants_write: it holds ciphertext to send.
wants_read == received_plaintext = <<>>
wants_write == sendable_tls # <<>>

\* A variant that tests the branches in the wrong order: writable is asked for
\* only when the session does not want to read.
ready_interest_read_first ==
    IF wants_read THEN {"r"}
    ELSE IF wants_write THEN {"w"}
    ELSE {"r"}

\* A variant that asks for both kinds of readiness whatever the session wants.
ready_interest_both == {"r", "w"}

\* ready_interest: the interest set handed to register and reregister.
ready_interest ==
    LET rd == wants_read
        wr == wants_write
    IN  IF rd /\ wr THEN {"r", "w"}
        ELSE IF wr THEN {"w"}
        ELSE {"r"}

\* The session as a value, for the record processing below.
TheSession ==
    [hs |-> hs, sp |-> sendable_plaintext, st |-> sendable_tls, df |-> deframer,
     rp |-> received_plaintext, eof |-> peer_eof, failed |-> FALSE]

\* One complete record handed to the handshake / record layer.  A record that
\* does not verify (bad certificate, bad MAC) or does not fit the state is a
\* TLS error.  The server's first flight makes the client queue its second
\* one; the server's Finished completes the handshake, and the plaintext
\* buffered by write_all is then encrypted and queued.
ProcessRecord(s, rec) ==
    IF ~rec.ok THEN [s EXCEPT !.failed = TRUE]
    ELSE IF rec.t = "SH" /\ s.hs = "expect_sh"
        THEN [s EXCEPT !.hs = "expect_sf", !.st = Append(@, ClientFinished)]
    ELSE IF rec.t = "SF" /\ s.hs = "expect_sf"
        THEN [s EXCEPT !.hs = "traffic", !.st = @ \o RequestUnits(s.sp), !.sp = <<>>]
    ELSE IF rec.t = "app" /\ s.hs = "traffic"
        THEN [s EXCEPT !.rp = @ \o rec.d]
    ELSE IF rec.t = "alert"
        THEN [s EXCEPT !.eof = TRUE]
    ELSE [s EXCEPT !.failed = TRUE]

\* process_new_packets: every complete record of the deframer, in order, until
\* one fails.  An incomplete record stays in the deframer.
RECURSIVE process_new_packets(_)
process_new_packets(s) ==
    IF s.failed \/ Len(s.df) < 2 THEN s
    ELSE process_new_packets(
             ProcessRecord([s EXCEPT !.df = Tail(Tail(@))], Head(s.df).rec))

\* The session's plaintext read reports ConnectionAborted when nothing is left
\* to read, the peer has sent close_notify and the deframer holds nothing.
connection_at_eof(eof, df) == eof /\ df = <<>>

\* ------------------------------------------------------------- lib.rs: get
\* get is `unimplemented!()`: it panics for every url.
get ==
    /\ pc = "get"
    /\ Panic("unimplemented")
    /\ UNCHANGED <<inputs, session, socket, registration, out, server,
                   environment, dns_queried, sock_opened, eos, tls_error, runs, httpreq>>

\* ---------------------------------------------------------- lib.rs: single
\* A variant that goes on without looking at the host.
single_host_unchecked ==
    /\ pc = "host"
    /\ Continue("port")
    /\ UNCHANGED <<inputs, session, socket, registration, out, server,
                   environment, dns_queried, sock_opened, eos, tls_error, runs, httpreq>>

\* url.host_str().ok_or_else(|| err_msg("relative url"))?
single_host ==
    /\ pc = "host"
    /\ IF url.host THEN Continue("port")
       ELSE Fail("relative url", "relative url")
    /\ UNCHANGED <<inputs, session, socket, registration, out, server,
                   environment, dns_queried, sock_opened, eos, tls_error, runs, httpreq>>

\* url.port_or_known_default().ok_or_else(|| err_msg("no port or ..."))?
single_port ==
    /\ pc = "port"
    /\ IF url.port \/ url.scheme THEN Continue("resolve")
       ELSE Fail("no port or unsupported protocol", "no port or unsupported protocol")
    /\ UNCHANGED <<inputs, session, socket, registration, out, server,
                   environment, dns_queried, sock_opened, eos, tls_error, runs, httpreq>>

\* (host, port).to_socket_addrs()?.next().ok_or_else(...)?  An IP literal is
\* parsed, any other host string is looked up.
single_resolve ==
    /\ pc = "resolve"
    /\ dns_queried' = (host_kind # "ip")
    /\ \/ Continue("connect")
       \/ faults /\ host_kind # "ip" /\ Fail("io", "resolve")
       \/ faults /\ host_kind # "ip" /\ Fail("resolution empty", "resolution empty")
    /\ UNCHANGED <<inputs, session, socket, registration, out, server,
                   environment, sock_opened, eos, tls_error, runs, httpreq>>

\* -------------------------------------------- oneshot (and single's copy)
\* TcpStream::connect(&addr)?: opens the socket and starts connecting.
connect ==
    /\ pc = "connect"
    /\ sock_opened' = TRUE
    /\ \/ Continue("sni")
       \/ faults /\ Fail("io", "connect")
    /\ UNCHANGED <<inputs, session, socket, registration, out, server,
                   environment, dns_queried, eos, tls_error, runs, httpreq>>

\* DNSNameRef::try_from_ascii_str(host).map_err(|()| err_msg("invalid sni name"))?
\* then TlsClient::new: the new session has its ClientHello queued.
sni ==
    /\ pc = "sni"
    /\ IF host_kind = "name"
       THEN /\ Continue("write_all")
            /\ hs' = "expect_sh"
            /\ sendable_tls' = <<ClientHello>>
       ELSE /\ Fail("invalid sni name", "invalid sni name")
            /\ UNCHANGED <<hs, sendable_tls>>
    /\ UNCHANGED <<inputs, sendable_plaintext, deframer, received_plaintext, peer_eof,
                   socket, registration, out, server, environment,
                   dns_queried, sock_opened, eos, tls_error, runs, httpreq>>

\* format!("GET / HTTP/1.1\r\nHost: {}\r\n..", host): the request line single
\* writes, as its three fields.  The url's path and query are not used.
format_request(u) == <<"GET", "/", "HTTP/1.1">>

\* A variant in which the request is encrypted and queued for the socket at
\* once instead of waiting in the session for the end of the handshake.
write_all_unbuffered ==
    /\ pc = "write_all"
    /\ sendable_tls' = sendable_tls \o RequestUnits(send)
    /\ httpreq' = IF entry = "single" THEN format_request(url) ELSE httpreq
    /\ Continue("poll_new")
    /\ UNCHANGED <<inputs, hs, sendable_plaintext, deframer, received_plaintext, peer_eof,
                   socket, registration, out, server, environment,
                   dns_queried, sock_opened, eos, tls_error, runs>>

\* tlsclient.write_all(send).unwrap(): in single the bytes are the formatted
\* request, in oneshot they are the caller's.  Before the handshake is
\* complete the session buffers the plaintext (no limit is set on the buffer,
\* so the write takes everything).
write_all ==
    /\ pc = "write_all"
    /\ sendable_plaintext' = sendable_plaintext \o send
    /\ httpreq' = IF entry = "single" THEN format_request(url) ELSE httpreq
    /\ Continue("poll_new")
    /\ UNCHANGED <<inputs, hs, sendable_tls, deframer, received_plaintext, peer_eof,
                   socket, registration, out, server, environment,
                   dns_queried, sock_opened, eos, tls_error, runs>>

\* mio::Poll::new()?
poll_new ==
    /\ pc = "poll_new"
    /\ \/ Continue("register")
       \/ faults /\ Fail("io", "poll_new")
    /\ UNCHANGED <<inputs, session, socket, registration, out, server,
                   environment, dns_queried, sock_opened, eos, tls_error, runs, httpreq>>

\* tlsclient.register(&mut poll): poll.register(.., ready_interest(),
\* level | oneshot).unwrap().  single has no spool and goes on to the loop.
register ==
    /\ pc = "register"
    /\ \/ /\ interest' = ready_interest
          /\ armed' = TRUE
          /\ Continue(IF entry = "oneshot" THEN "tempfile" ELSE "poll")
       \/ /\ faults
          /\ Panic("register")
          /\ UNCHANGED <<interest, armed>>
    /\ UNCHANGED <<inputs, session, socket, ev, out, server,
                   environment, dns_queried, sock_opened, eos, tls_error, runs, httpreq>>

\* let mut out = tempfile::tempfile()?
tempfile ==
    /\ pc = "tempfile"
    /\ \/ out' = <<>> /\ Continue("poll")
       \/ faults /\ Fail("io", "tempfile") /\ UNCHANGED out
    /\ UNCHANGED <<inputs, session, socket, registration, server,
                   environment, dns_queried, sock_opened, eos, tls_error, runs, httpreq>>

\* ---------------------------------------------------- the readiness loop
\* What the socket can do now.  Once connected it accepts writes; it is
\* readable when ciphertext has arrived or the peer has closed.
Ready == (IF sock_in # <<>> \/ sock_fin THEN {"r"} ELSE {}) \cup {"w"}

\* The events poll may report for the registration: every registered kind that
\* is ready, and possibly more (mio documents that a reported readiness may be
\* spurious, so the operation that follows can still find the socket not ready).
Events ==
    {e \in SUBSET interest :
        /\ e # {}
        /\ (interest \cap Ready) \subseteq e
        /\ faults \/ e \subseteq Ready}

\* A variant that polls with a timeout and returns the spool when it expires.
poll_with_timeout ==
    /\ pc = "poll"
    /\ \/ /\ armed
          /\ \E e \in Events :
                /\ ev' = e
                /\ Continue(IF "r" \in e THEN "readable" ELSE "writable")
          /\ armed' = FALSE
          /\ UNCHANGED interest
       \/ /\ interest \cap Ready = {}
          /\ Return("ok")
          /\ UNCHANGED registration
       \/ /\ faults
          /\ Fail("io", "poll")
          /\ UNCHANGED registration
    /\ UNCHANGED <<inputs, session, socket, out, server,
                   environment, dns_queried, sock_opened, eos, tls_error, runs, httpreq>>

\* poll.poll(&mut events, None)?: blocks until the armed registration has an
\* event; the registration is one-shot, so delivering the event disarms it.
\* There is one token, so one event per wakeup.
poll ==
    /\ pc = "poll"
    /\ \/ /\ armed
          /\ \E e \in Events :
                /\ ev' = e
                /\ Continue(IF "r" \in e THEN "readable" ELSE "writable")
          /\ armed' = FALSE
          /\ UNCHANGED interest
       \/ /\ faults
          /\ Fail("io", "poll")
          /\ UNCHANGED registration
    /\ UNCHANGED <<inputs, session, socket, out, server,
                   environment, dns_queried, sock_opened, eos, tls_error, runs, httpreq>>

\* A variant that returns the end of the available plaintext as an error.
after_drain_as_error == Fail("io", "plaintext would block")

\* The arm of the match that is Ok(_): on to the writable part of the event.
after_drain == Continue(IF "w" \in ev THEN "writable" ELSE "reregister")

\* A variant that treats the read of zero bytes as a failed read.
on_eof_as_error == Fail("io", "eof")

\* if tlsclient.maybe_read_packets()? { return Ok(out); }   -- read of zero bytes
on_eof == Return("ok")

\* A variant that drops the result of process_new_packets and goes on.
on_tls_error_ignored == Continue("drain")

\* self.tls_session.process_new_packets()?   -- TLS protocol error
on_tls_error == Fail("tls", "tls")

\* self.tls_session.read_tls(&mut self.socket)?   -- the read failed; WouldBlock
\* is an io::Error like any other and `?` returns it.
on_read_error(what) == Fail("io", what)

\* A variant that handles the rest of the event without draining the session.
after_read_no_drain == after_drain

\* maybe_read_packets returned Ok(false): on to the drain.
after_read == Continue("drain")

\* if ev.readiness().is_readable(): maybe_read_packets.  One read takes what
\* has arrived; zero bytes is end of stream; otherwise the new records are
\* processed.
maybe_read_packets ==
    /\ pc = "readable"
    /\ \/ /\ sock_in # <<>>
          /\ LET s == process_new_packets([TheSession EXCEPT !.df = @ \o sock_in])
             IN  /\ hs' = s.hs
                 /\ sendable_plaintext' = s.sp
                 /\ sendable_tls' = s.st
                 /\ deframer' = s.df
                 /\ received_plaintext' = s.rp
                 /\ peer_eof' = s.eof
                 /\ tls_error' = s.failed
                 /\ IF s.failed THEN on_tls_error ELSE after_read
          /\ sock_in' = <<>>
          /\ UNCHANGED <<sock_fin, sock_out, eos>>
       \/ /\ sock_in = <<>> /\ sock_fin
          /\ eos' = "tcp_eof"
          /\ on_eof
          /\ UNCHANGED <<session, socket, tls_error>>
       \/ /\ sock_in = <<>> /\ ~sock_fin
          /\ on_read_error("read would block")
          /\ UNCHANGED <<session, socket, eos, tls_error>>
       \/ /\ faults
          /\ on_read_error("read")
          /\ UNCHANGED <<session, socket, eos, tls_error>>
    /\ UNCHANGED <<inputs, registration, out, server,
                   environment, dns_queried, sock_opened, runs, httpreq>>

\* A variant that does one read of one byte instead of copying to the end.
copy_one_read(src) == Min(1, Len(src))

\* io::copy reads the session until a read returns zero bytes or fails, and
\* writes what it reads: this is the number of plaintext bytes it moves.
copy_count(src) == Len(src)

\* A variant that writes at the start of the spool instead of at its end.
spool_write_at_start(dst, bytes) ==
    IF Len(bytes) >= Len(dst) THEN bytes
    ELSE bytes \o SubSeq(dst, Len(bytes) + 1, Len(dst))

\* Where the copied bytes land in the spool: after what is there.
spool_write(dst, bytes) == dst \o bytes

\* Err(ref err) if ConnectionAborted == err.kind() => return Ok(out)
on_connection_aborted == Return("ok")

\* match io::copy(&mut tlsclient.tls_session, &mut out) { .. }.  A failing
\* write of the spool is returned by `?`; single writes to stdout and unwraps.
drain ==
    /\ pc = "drain"
    /\ \/ LET n == copy_count(received_plaintext)
              rest == SubSeq(received_plaintext, n + 1, Len(received_plaintext))
              aborted == rest = <<>> /\ connection_at_eof(peer_eof, deframer)
          IN  /\ out' = spool_write(out, SubSeq(received_plaintext, 1, n))
              /\ received_plaintext' = rest
              /\ eos' = IF aborted THEN "close_notify" ELSE eos
              /\ IF aborted THEN on_connection_aborted ELSE after_drain
       \/ /\ faults
          /\ received_plaintext # <<>>
          /\ IF entry = "oneshot" THEN Fail("io", "spool write") ELSE Panic("stdout write")
          /\ UNCHANGED <<out, received_plaintext, eos>>
    /\ UNCHANGED <<inputs, hs, sendable_plaintext, sendable_tls, deframer, peer_eof,
                   socket, registration, server, environment,
                   dns_queried, sock_opened, tls_error, runs, httpreq>>

\* A variant whose short write forgets the ciphertext it did not write.
maybe_write_packets_drops_rest ==
    /\ pc = "writable"
    /\ \/ /\ sendable_tls = <<>>
          /\ UNCHANGED <<sendable_tls, sock_out>>
       \/ /\ sendable_tls # <<>>
          /\ \E k \in 1..Len(sendable_tls) :
                sock_out' = sock_out \o SubSeq(sendable_tls, 1, k)
          /\ sendable_tls' = <<>>
    /\ Continue("reregister")
    /\ UNCHANGED <<inputs, hs, sendable_plaintext, deframer, received_plaintext, peer_eof,
                   sock_in, sock_fin, registration, out, server, environment,
                   dns_queried, sock_opened, eos, tls_error, runs, httpreq>>

\* writev_tls(..).unwrap(): any error of the write, WouldBlock included, panics.
on_write_error(what) == Panic(what)

\* if ev.readiness().is_writable(): maybe_write_packets.  With nothing queued
\* writev_tls writes nothing; otherwise one writev, which may be short, may
\* find the socket not writable after all (the readiness was spurious), or
\* may fail (the peer has reset the connection).
maybe_write_packets ==
    /\ pc = "writable"
    /\ \/ /\ sendable_tls = <<>>
          /\ Continue("reregister")
          /\ UNCHANGED <<sendable_tls, sock_out>>
       \/ /\ sendable_tls # <<>>
          /\ \E k \in 1..Len(sendable_tls) :
                /\ sock_out' = sock_out \o SubSeq(sendable_tls, 1, k)
                /\ sendable_tls' = SubSeq(sendable_tls, k + 1, Len(sendable_tls))
          /\ Continue("reregister")
       \/ /\ faults
          /\ sendable_tls # <<>>
          /\ \E what \in {"write would block", "write"} : on_write_error(what)
          /\ UNCHANGED <<sendable_tls, sock_out>>
    /\ UNCHANGED <<inputs, hs, sendable_plaintext, deframer, received_plaintext, peer_eof,
                   sock_in, sock_fin, registration, out, server, environment,
                   dns_queried, sock_opened, eos, tls_error, runs, httpreq>>

\* A variant that goes back to the poll without re-arming the registration.
reregister_no_rearm ==
    /\ pc = "reregister"
    /\ ev' = {}
    /\ Continue("poll")
    /\ UNCHANGED <<interest, armed>>
    /\ UNCHANGED <<inputs, session, socket, out, server,
                   environment, dns_queried, sock_opened, eos, tls_error, runs, httpreq>>

\* tlsclient.reregister(&mut poll): poll.reregister(.., ready_interest(),
\* level | oneshot).unwrap(), then the next poll.
reregister ==
    /\ pc = "reregister"
    /\ \/ /\ interest' = ready_interest
          /\ armed' = TRUE
          /\ ev' = {}
          /\ Continue("poll")
       \/ /\ faults
          /\ Panic("reregister")
          /\ UNCHANGED registration
    /\ UNCHANGED <<inputs, session, socket, out, server,
                   environment, dns_queried, sock_opened, eos, tls_error, runs, httpreq>>

\* ------------------------------------------------- the server, the network
RequestReceived == Len(sock_out) = 2 + Len(send)

\* Whether a record the server sends verifies: a faulty server may send one
\* that does not.
Goodness == IF faults THEN BOOLEAN ELSE {TRUE}

\* The server answers the ClientHello with its first flight; a certificate
\* that does not verify makes the flight a bad record.
srv_hello ==
    /\ pc # "done" /\ srv_stage = "wait_ch"
    /\ Has(sock_out, ClientHello)
    /\ \E good \in Goodness : srv_out' = srv_out \o Units(Record("SH", <<>>, good))
    /\ srv_stage' = "wait_cf"
    /\ UNCHANGED <<inputs, thread, session, socket, registration, out, srv_pos,
                   environment, history, runs, httpreq>>

srv_finished ==
    /\ pc # "done" /\ srv_stage = "wait_cf"
    /\ Has(sock_out, ClientFinished)
    /\ srv_out' = srv_out \o Units(Record("SF", <<>>, TRUE))
    /\ srv_stage' = "wait_req"
    /\ UNCHANGED <<inputs, thread, session, socket, registration, out, srv_pos,
                   environment, history, runs, httpreq>>

\* With the whole request read, the server sends its plaintext in order, in
\* records of 1..MaxRec bytes; a record may be corrupt (bad MAC).
srv_respond ==
    /\ pc # "done" /\ srv_stage = "wait_req"
    /\ RequestReceived
    /\ srv_pos < Len(plain)
    /\ \E k \in 1..Min(MaxRec, Len(plain) - srv_pos), good \in Goodness :
          /\ srv_out' = srv_out \o
                 Units(Record("app", SubSeq(plain, srv_pos + 1, srv_pos + k), good))
          /\ srv_pos' = srv_pos + k
    /\ UNCHANGED <<inputs, thread, session, socket, registration, out, srv_stage,
                   environment, history, runs, httpreq>>

\* After the complete response the server closes: with a close_notify alert
\* before the FIN, or with the FIN alone.
srv_close ==
    /\ pc # "done" /\ srv_stage = "wait_req"
    /\ RequestReceived
    /\ srv_pos = Len(plain)
    /\ srv_out' = IF close_mode = "notify"
                  THEN srv_out \o Units(Record("alert", <<>>, TRUE))
                  ELSE srv_out
    /\ srv_stage' = "closed"
    /\ UNCHANGED <<inputs, thread, session, socket, registration, out, srv_pos,
                   environment, history, runs, httpreq>>

\* The network hands the next ciphertext unit to the client's socket.
net_deliver ==
    /\ pc # "done" /\ srv_out # <<>>
    /\ sock_in' = Append(sock_in, Head(srv_out))
    /\ srv_out' = Tail(srv_out)
    /\ UNCHANGED <<inputs, thread, session, sock_fin, sock_out, registration, out,
                   srv_stage, srv_pos, environment, history, runs, httpreq>>

\* The FIN arrives after everything the server sent.
net_fin ==
    /\ pc # "done" /\ srv_stage = "closed" /\ srv_out = <<>> /\ ~sock_fin
    /\ sock_fin' = TRUE
    /\ UNCHANGED <<inputs, thread, session, sock_in, sock_out, registration, out,
                   server, environment, history, runs, httpreq>>

\* ------------------------------------------------------------ a second call
\* oneshot keeps no state between calls.  After a first call has returned its
\* spool, the caller asks again: same request, same server plaintext, and the
\* server ends the response the other way.
oneshot_again ==
    /\ pc = "done" /\ result = "ok" /\ entry = "oneshot" /\ run = 1
    /\ run' = 2
    /\ prev_out' = out
    /\ prev_eos' = eos
    /\ close_mode' = IF close_mode = "notify" THEN "fin" ELSE "notify"
    /\ pc' = "connect" /\ result' = "none" /\ err' = "none"
    /\ hs' = "none" /\ sendable_plaintext' = <<>> /\ sendable_tls' = <<>>
    /\ deframer' = <<>> /\ received_plaintext' = <<>> /\ peer_eof' = FALSE
    /\ sock_in' = <<>> /\ sock_fin' = FALSE /\ sock_out' = <<>>
    /\ interest' = {} /\ armed' = FALSE /\ ev' = {}
    /\ out' = <<>>
    /\ srv_stage' = "wait_ch" /\ srv_out' = <<>> /\ srv_pos' = 0
    /\ dns_queried' = FALSE /\ sock_opened' = FALSE /\ fault' = "none"
    /\ eos' = "none" /\ tls_error' = FALSE
    /\ UNCHANGED <<inputs, plain, faults, httpreq>>

Next ==
    \/ get
    \/ single_host \/ single_port \/ single_resolve
    \/ connect \/ sni \/ write_all \/ poll_new \/ register \/ tempfile
    \/ poll \/ maybe_read_packets \/ drain \/ maybe_write_packets \/ reregister
    \/ srv_hello \/ srv_finished \/ srv_respond \/ srv_close
    \/ net_deliver \/ net_fin
    \/ oneshot_again

Spec == Init /\ [][Next]_vars

\* ------------------------------------------- a call with nothing going wrong
\* oneshot called with a legal host name, against a server and a network that
\* do not fail: no operation returns an error, no readiness is spurious and
\* every record verifies.
LiveInit ==
    /\ entry = "oneshot"
    /\ url = [host |-> TRUE, port |-> TRUE, scheme |-> TRUE, path |-> "/", query |-> "none"]
    /\ host_kind = "name"
    /\ send \in Requests
    /\ plain \in SeqsUpTo(Bytes, MaxPlain)
    /\ close_mode \in {"notify", "fin"}
    /\ faults = FALSE
    /\ httpreq = <<>>
    /\ pc = "connect"
    /\ run = 1 /\ prev_out = <<>> /\ prev_eos = "none"
    /\ Fresh

\* The steps of the client thread, and those of the server and the network.
Client ==
    \/ connect \/ sni \/ write_all \/ poll_new \/ register \/ tempfile
    \/ poll \/ maybe_read_packets \/ drain \/ maybe_write_packets \/ reregister

Peer ==
    \/ srv_hello \/ srv_finished \/ srv_respond \/ srv_close
    \/ net_deliver \/ net_fin

NextLive ==
    \/ connect \/ sni \/ write_all \/ poll_new \/ register \/ tempfile
    \/ poll \/ maybe_read_packets \/ drain \/ maybe_write_packets \/ reregister
    \/ srv_hello \/ srv_finished \/ srv_respond \/ srv_close
    \/ net_deliver \/ net_fin

\* The thread runs whenever it can (poll returns once the armed registration
\* has an event), the server answers and the network delivers.
SpecLive == LiveInit /\ [][NextLive]_vars /\ WF_vars(Client) /\ WF_vars(Peer)

\* ================================================================== claims

\* C1: in oneshot both end-of-stream signals are normal termination: once the
\* socket read has returned zero bytes (TCP EOF), or the plaintext read of the
\* drain has reported ConnectionAborted (close_notify), the call has returned
\* the spool as a success value, never an error.
C1_EndOfStreamIsSuccess ==
    (entry = "oneshot" /\ eos # "none") => (pc = "done" /\ result = "ok")

\* Both signals have ended a call: the first call ended on close_notify and
\* the second on TCP EOF, each after spooling the whole plaintext.
C1_Witness ==
    /\ entry = "oneshot" /\ run = 2 /\ pc = "done" /\ result = "ok"
    /\ prev_eos = "close_notify" /\ eos = "tcp_eof"
    /\ Len(out) = MaxPlain

\* C2: when the server has sent its complete response and closed TCP without
\* a close_notify, the spool oneshot returns holds exactly the plaintext the
\* server sent, however the ciphertext was split across readable events.
C2_FinSpoolIsComplete ==
    (entry = "oneshot" /\ pc = "done" /\ result = "ok" /\ close_mode = "fin")
        => out = plain

\* A first call, ended by TCP EOF, returned a spool holding the longest
\* plaintext.
C2_Witness ==
    /\ entry = "oneshot" /\ pc = "done" /\ result = "ok"
    /\ close_mode = "fin" /\ eos = "tcp_eof"
    /\ Len(plain) = MaxPlain /\ out = plain
    /\ run = 1

\* C3: termination equivalence: for the same server plaintext a call the
\* server ends by close_notify and a call it ends by TCP FIN both return
\* successfully, on different end-of-stream signals, with equal spools.
C3_TerminationEquivalence ==
    (entry = "oneshot" /\ run = 2 /\ pc = "done" /\ result = "ok")
        => (out = prev_out /\ eos # "none" /\ prev_eos # "none" /\ eos # prev_eos)

\* The second call has returned, ended by close_notify after a first call
\* ended by FIN, both with a non-empty spool.
C3_Witness ==
    /\ entry = "oneshot" /\ run = 2 /\ pc = "done" /\ result = "ok"
    /\ eos = "close_notify" /\ prev_eos = "tcp_eof"
    /\ prev_out # <<>> /\ out = prev_out

\* C4: in every state the spool is a prefix of the plaintext the server
\* sends, in the server's order: the drain appends only.
C4_SpoolIsPrefix ==
    entry = "oneshot" => IsPrefix(out, plain)

\* The loop is running with a spool that holds the first byte of a longer
\* plaintext: the next drain has to append to it.
C4_Witness ==
    /\ entry = "oneshot" /\ pc = "drain"
    /\ out # <<>> /\ received_plaintext # <<>>
    /\ Len(out) < Len(plain)

\* C5: a would-block result of the socket read or of the socket write is not
\* an error: the call goes on (re-arm, poll) and neither returns an error nor
\* stops because of it.
C5_WouldBlockIsNotAnError ==
    entry = "oneshot" => fault \notin {"read would block", "write would block"}

\* C6: every failure during a request ends the call by returning an error
\* value to the caller; no failure aborts the program.
C6_FailuresAreReturned ==
    (entry = "oneshot" /\ fault # "none") => (pc = "done" /\ result = "err")

\* C7: once TLS record processing has failed, during the handshake or after
\* plaintext has been spooled, oneshot has returned an error: it goes on no
\* further and never returns a spool.
C7_TlsErrorReturnsError ==
    (entry = "oneshot" /\ tls_error) => (pc = "done" /\ result = "err" /\ err = "tls")

\* A record failed mid-response, with plaintext already in the spool.
C7_Witness ==
    /\ entry = "oneshot" /\ tls_error /\ hs = "traffic"
    /\ out # <<>> /\ result = "err"

\* C8: single fails with "relative url" for every url without a host, and
\* with "no port or unsupported protocol" for every url with a host whose
\* scheme has no known default port and that gives no port; in both cases
\* before any name has been resolved and before any socket has been opened.
C8_UrlValidatedBeforeIo ==
    /\ (entry = "single" /\ ~url.host) =>
          /\ pc \in {"host", "done"}
          /\ pc = "done" => (result = "err" /\ err = "relative url")
          /\ ~dns_queried /\ ~sock_opened
    /\ (entry = "single" /\ url.host /\ ~url.port /\ ~url.scheme) =>
          /\ pc \in {"host", "port", "done"}
          /\ pc = "done" => (result = "err" /\ err = "no port or unsupported protocol")
          /\ ~dns_queried /\ ~sock_opened

\* single has returned the unknown-scheme error for a url that has a host.
C8_Witness ==
    /\ entry = "single" /\ url.host /\ ~url.port /\ ~url.scheme
    /\ pc = "done" /\ err = "no port or unsupported protocol"

\* C9: when the request fails with "invalid sni name", no DNS query has been
\* issued and no TCP connection has been opened.
C9_SniCheckedBeforeIo ==
    err = "invalid sni name" => (~dns_queried /\ ~sock_opened)

\* C10: get ends by returning a Response or an error value to its caller,
\* never in any other way.
C10_GetReturns ==
    (entry = "get" /\ pc = "done") => result \in {"ok", "err"}

\* C11: the request line written to the TLS driver is GET <path>[?<query>]
\* HTTP/1.1: the url's path verbatim, followed by ?<query> exactly when the
\* url has a query.
C11_RequestLineHasPathAndQuery ==
    (entry = "single" /\ httpreq # <<>>) =>
        httpreq = <<"GET">> \o <<url.path>>
                      \o (IF url.query # "none" THEN <<"?", url.query>> ELSE <<>>)
                      \o <<"HTTP/1.1">>

\* C12: on the initial registration and on every re-arm the registered
\* interest tracks the session exactly: readable is registered if and only if
\* the session wants to receive, writable if and only if it wants to send.
\* (The session does not change between a registration and the next event.)
C12_InterestTracksSession ==
    armed => /\ ("r" \in interest) <=> wants_read
             /\ ("w" \in interest) <=> wants_write

\* A re-arm during the handshake: the server's first flight has been
\* processed, the client's second flight is queued, and the registration
\* asks for both kinds again.
C12_Witness ==
    /\ entry = "oneshot" /\ pc = "poll" /\ armed
    /\ hs = "expect_sf" /\ interest = {"r", "w"}

\* C13: the engine never waits in poll with its registration disarmed or with
\* an empty interest set: every event handled without returning is followed
\* by a re-arm before the next poll, and ready_interest yields one of read,
\* write, read+write in every state of the session, also when the session
\* wants neither to send nor to receive.
C13_PollIsArmed ==
    /\ pc = "poll" => (armed /\ interest \in {{"r"}, {"w"}, {"r", "w"}})
    /\ ready_interest \in {{"r"}, {"w"}, {"r", "w"}}
    /\ (~wants_read /\ ~wants_write) => ready_interest = {"r"}

\* Back in the poll, armed, after events that spooled plaintext.
C13_Witness ==
    /\ entry = "oneshot" /\ pc = "poll" /\ armed /\ interest = {"r"}
    /\ hs = "traffic" /\ out # <<>>

\* C14: in the drain, the session having no more plaintext for now (and no
\* close_notify received) ends the drain normally: nothing is returned, and
\* the engine goes on to the writable part of the event or to the re-arm;
\* the drain ends the request successfully only on ConnectionAborted.
C14_DrainEndsNormally ==
    [][(entry = "oneshot" /\ pc = "drain" /\ pc' # "drain") =>
          /\ (~connection_at_eof(peer_eof, deframer) /\ fault' # "spool write") =>
                /\ result' = "none"
                /\ pc' = IF "w" \in ev THEN "writable" ELSE "reregister"
          /\ result' = "ok" => connection_at_eof(peer_eof, deframer)]_vars

\* A drain has spooled plaintext and ended without ConnectionAborted: the
\* engine is about to re-arm.
C14_Witness ==
    /\ entry = "oneshot" /\ pc = "reregister" /\ ev = {"r"}
    /\ out # <<>> /\ ~peer_eof /\ result = "none"

\* The ciphertext the session has queued so far, in order: the ClientHello,
\* the second flight once the server's first has been processed, the request
\* once the handshake is complete.
QueuedSoFar ==
    <<ClientHello>>
        \o (IF hs \in {"expect_sf", "traffic"} THEN <<ClientFinished>> ELSE <<>>)
        \o (IF hs = "traffic" THEN RequestUnits(send) ELSE <<>>)

\* C15: a short write loses nothing: what has been written followed by what
\* is still queued is exactly what the session queued, each byte once and in
\* order; while ciphertext remains queued the armed registration includes
\* writable; and with the thread and the peer running, queued ciphertext is
\* eventually all written.
C15_ShortWriteLosesNothing ==
    /\ [](hs # "none" => sock_out \o sendable_tls = QueuedSoFar)
    /\ []((armed /\ sendable_tls # <<>>) => "w" \in interest)
    /\ (sendable_tls # <<>>) ~> (sendable_tls = <<>>)

\* After a short write: part of the request is on the socket, the rest is
\* still queued, and the re-arm has asked for writable.
C15_Witness ==
    /\ pc = "poll" /\ armed /\ "w" \in interest
    /\ hs = "traffic"
    /\ Len(sock_out) > 2 /\ sendable_tls # <<>>

\* C16: the request is queued in the session before the socket is registered
\* and before any socket read or write; none of it reaches the socket before
\* the handshake is complete; and once the handshake is complete all of it
\* is eventually written to the socket.
C16_RequestWaitsForHandshake ==
    /\ []((armed \/ interest # {} \/ sock_out # <<>> \/ deframer # <<>>) =>
             IF hs = "traffic" THEN sendable_plaintext = <<>>
             ELSE sendable_plaintext = send)
    /\ []((\E i \in 1..Len(sock_out) : sock_out[i].t = "REQ") => hs = "traffic")
    /\ (hs = "traffic") ~> (sock_out = <<ClientHello, ClientFinished>> \o RequestUnits(send))

\* The handshake is complete and the whole of the longest request has been
\* written.
C16_Witness ==
    /\ hs = "traffic" /\ Len(send) = MaxReq
    /\ sock_out = <<ClientHello, ClientFinished>> \o RequestUnits(send)

\* C17: when nothing fails, the server completes the handshake, sends its
\* response and closes, and the thread and the peer keep running, oneshot
\* eventually returns its spool.
C17_OneshotReturns ==
    <>(pc = "done" /\ result = "ok")

\* The call has returned the longest plaintext after sending the longest
\* request.
C17_Witness ==
    /\ pc = "done" /\ result = "ok"
    /\ out = plain /\ Len(plain) = MaxPlain /\ Len(send) = MaxReq

\* C18: oneshot leaves its loop only through TCP EOF, ConnectionAborted from
\* the plaintext read, or a failure; there is no timeout and no cancellation:
\* while the peer has neither closed the connection nor sent close_notify and
\* nothing has failed, the call has not returned.
C18_NoOtherWayOut ==
    entry = "oneshot" =>
        /\ (pc = "done" /\ result = "ok") => eos \in {"tcp_eof", "close_notify"}
        /\ (pc = "done" /\ eos = "none") => fault # "none"
        /\ (~sock_fin /\ ~peer_eof /\ fault = "none") => pc # "done"

\* The server has read the whole request, keeps the connection open and has
\* sent nothing: the client waits in poll with nothing ready.
C18_Witness ==
    /\ entry = "oneshot" /\ pc = "poll" /\ armed
    /\ interest \cap Ready = {}
    /\ hs = "traffic" /\ RequestReceived
    /\ srv_stage = "wait_req" /\ srv_pos = 0 /\ srv_out = <<>> /\ Len(plain) > 0

====
